---- MODULE Spec2Model ----
(***************************************************************************)
(* Model of the pose classification of monkey_pose_mimic                   *)
(* (src/pose_detector.py, thresholds from src/config.py).                  *)
(*                                                                         *)
(* Coordinates are MediaPipe's normalised floats; the model keeps them as  *)
(* integers in hundredths (0.40 is 40), so the thresholds 0.05, 0.15 and   *)
(* 0.08 are 5, 15 and 8.  Differences of coordinates stay integers, the    *)
(* mouth ratio is an exact fraction num/den, and the Euclidean distance    *)
(* sqrt(s) is compared through its square s.                               *)
(*                                                                         *)
(* A Python object is a record with a field "kind"; None is                *)
(* [kind |-> "None"].  A protobuf landmark list is a function from the     *)
(* indices it holds to points: reading an index outside its DOMAIN is      *)
(* Python's IndexError.                                                    *)
(***************************************************************************)
EXTENDS Integers, Sequences, FiniteSets, TLC

\* ------------------------------------------------------------------------
\* Thresholds (CONFIG.pose) and sizes (CONFIG.hands), in hundredths.
hand_raise_threshold == 5
mouth_open_threshold == 15
hand_to_face_threshold == 8
max_num_hands == 2
Scale == 100

\* Largest number of faces a face_results object of the model holds.
MaxFaces == 2

\* Landmark indices the rules read.
NOSE == 0
WRIST == 0
THUMB_TIP == 4
INDEX_FINGER_TIP == 8
MIDDLE_FINGER_TIP == 12
UPPER_LIP == 13
LOWER_LIP == 14
FOREHEAD == 10
CHIN == 152
MOUTH_CENTER == 0

\* ------------------------------------------------------------------------
\* Python values.
None == [kind |-> "None"]

Pt(px, py, pz) == [x |-> px, y |-> py, z |-> pz]

\* A NormalizedLandmarkList: a message (always truthy) around a repeated
\* field "landmark".
LandmarkList(lm) == [kind |-> "landmarks", landmark |-> lm]

List(s) == [kind |-> "list", items |-> s]

\* Python truthiness, as used by "if not v": None and the empty list are
\* falsy, result objects and protobuf messages are truthy.
Falsy(v) == v.kind = "None" \/ (v.kind = "list" /\ v.items = <<>>)

HasIndex(lm, i) == i \in DOMAIN lm

\* ------------------------------------------------------------------------
\* Exact arithmetic for the floats.
Abs(n) == IF n < 0 THEN -n ELSE n

RECURSIVE Gcd(_, _)
Gcd(a, b) == IF b = 0 THEN a ELSE Gcd(b, a % b)

\* The quotient a / b (b > 0) as a fraction in lowest terms.
Frac(a, b) == LET g == Gcd(a, b) IN [num |-> a \div g, den |-> b \div g]

Zero == [num |-> 0, den |-> 1]

\* Mutant of FracGreater: the comparison is not strict.
FracGreaterOrEqual(f, t) == f.num * Scale >= t * f.den

\* f > t / Scale for a fraction f and a threshold t in hundredths.
FracGreater(f, t) == f.num * Scale > t * f.den

\* ------------------------------------------------------------------------
\* DebugInfo dataclass with its defaults.
DebugInfo == [mouth_ratio |-> Zero, hand_height |-> 0,
              hands_detected |-> 0, face_detected |-> FALSE]

\* Result of a rule: whether it fired, whether an exception left it, and
\* self.debug_info as it is when the rule is left.
Rule(f, r, d) == [fired |-> f, raised |-> r, dbg |-> d]

\* Mutant of raising_hand_loop: a hand exactly at the threshold counts.
RECURSIVE raising_hand_loop_ge(_, _, _, _)
raising_hand_loop_ge(dbg, nose_y, hands, i) ==
    IF i > Len(hands) THEN Rule(FALSE, FALSE, dbg)
    ELSE IF ~HasIndex(hands[i].landmark, WRIST) THEN Rule(FALSE, TRUE, dbg)
    ELSE LET wrist_y == hands[i].landmark[WRIST].y
             height_diff == nose_y - wrist_y
             d1 == [dbg EXCEPT !.hand_height = height_diff]
         IN IF height_diff >= hand_raise_threshold
            THEN Rule(TRUE, FALSE, d1)
            ELSE raising_hand_loop_ge(d1, nose_y, hands, i + 1)

\* Mutant of raising_hand_loop: hand_height keeps the largest difference
\* seen so far instead of the current hand's.
RECURSIVE raising_hand_loop_max(_, _, _, _)
raising_hand_loop_max(dbg, nose_y, hands, i) ==
    IF i > Len(hands) THEN Rule(FALSE, FALSE, dbg)
    ELSE IF ~HasIndex(hands[i].landmark, WRIST) THEN Rule(FALSE, TRUE, dbg)
    ELSE LET wrist_y == hands[i].landmark[WRIST].y
             height_diff == nose_y - wrist_y
             d1 == IF i = 1 \/ height_diff > dbg.hand_height
                   THEN [dbg EXCEPT !.hand_height = height_diff] ELSE dbg
         IN IF height_diff > hand_raise_threshold
            THEN Rule(TRUE, FALSE, d1)
            ELSE raising_hand_loop_max(d1, nose_y, hands, i + 1)

\* ------------------------------------------------------------------------
\* _is_raising_hand: the loop over hand_results.multi_hand_landmarks,
\* from hand i on.
RECURSIVE raising_hand_loop(_, _, _, _)
raising_hand_loop(dbg, nose_y, hands, i) ==
    IF i > Len(hands) THEN Rule(FALSE, FALSE, dbg)
    ELSE IF ~HasIndex(hands[i].landmark, WRIST) THEN Rule(FALSE, TRUE, dbg)
    ELSE LET wrist_y == hands[i].landmark[WRIST].y
             height_diff == nose_y - wrist_y
             d1 == [dbg EXCEPT !.hand_height = height_diff]
         IN IF height_diff > hand_raise_threshold
            THEN Rule(TRUE, FALSE, d1)
            ELSE raising_hand_loop(d1, nose_y, hands, i + 1)

is_raising_hand(dbg, pose_results, hand_results) ==
    IF Falsy(pose_results) \/ Falsy(hand_results)
    THEN Rule(FALSE, FALSE, [dbg EXCEPT !.hand_height = 0])
    ELSE IF Falsy(pose_results.pose_landmarks)
            \/ Falsy(hand_results.multi_hand_landmarks)
    THEN Rule(FALSE, FALSE, [dbg EXCEPT !.hand_height = 0])
    ELSE LET pose_landmarks == pose_results.pose_landmarks.landmark
         IN IF ~HasIndex(pose_landmarks, NOSE) THEN Rule(FALSE, TRUE, dbg)
            ELSE raising_hand_loop(dbg, pose_landmarks[NOSE].y,
                                   hand_results.multi_hand_landmarks.items, 1)

\* ------------------------------------------------------------------------
\* _is_shocking.
\* Mutant of mouth_ratio_of: a face of height zero is given height one.
mouth_ratio_of_unguarded(mouth_opening, face_height) ==
    IF face_height > 0 THEN Frac(mouth_opening, face_height)
    ELSE Frac(mouth_opening, 1)

mouth_ratio_of(mouth_opening, face_height) ==
    IF face_height > 0 THEN Frac(mouth_opening, face_height) ELSE Zero

\* Mutant of is_shocking: the last face of the list is measured, not the
\* first.
is_shocking_last_face(dbg, face_results) ==
    IF Falsy(face_results)
    THEN Rule(FALSE, FALSE, [dbg EXCEPT !.mouth_ratio = Zero])
    ELSE IF Falsy(face_results.multi_face_landmarks)
    THEN Rule(FALSE, FALSE, [dbg EXCEPT !.mouth_ratio = Zero])
    ELSE LET faces == face_results.multi_face_landmarks.items
             face_landmarks == faces[Len(faces)].landmark
         IN IF \E i \in {UPPER_LIP, LOWER_LIP, FOREHEAD, CHIN} :
                   ~HasIndex(face_landmarks, i)
            THEN Rule(FALSE, FALSE, [dbg EXCEPT !.mouth_ratio = Zero])
            ELSE LET upper_lip == face_landmarks[UPPER_LIP].y
                     lower_lip == face_landmarks[LOWER_LIP].y
                     forehead == face_landmarks[FOREHEAD].y
                     chin == face_landmarks[CHIN].y
                     face_height == Abs(chin - forehead)
                     mouth_opening == Abs(lower_lip - upper_lip)
                     mouth_ratio == mouth_ratio_of(mouth_opening, face_height)
                 IN Rule(FracGreater(mouth_ratio, mouth_open_threshold), FALSE,
                         [dbg EXCEPT !.mouth_ratio = mouth_ratio])

is_shocking(dbg, face_results) ==
    IF Falsy(face_results)
    THEN Rule(FALSE, FALSE, [dbg EXCEPT !.mouth_ratio = Zero])
    ELSE IF Falsy(face_results.multi_face_landmarks)
    THEN Rule(FALSE, FALSE, [dbg EXCEPT !.mouth_ratio = Zero])
    ELSE LET face_landmarks == face_results.multi_face_landmarks.items[1].landmark
         IN IF \E i \in {UPPER_LIP, LOWER_LIP, FOREHEAD, CHIN} :
                   ~HasIndex(face_landmarks, i)
            THEN \* IndexError, caught
                 Rule(FALSE, FALSE, [dbg EXCEPT !.mouth_ratio = Zero])
            ELSE LET upper_lip == face_landmarks[UPPER_LIP].y
                     lower_lip == face_landmarks[LOWER_LIP].y
                     forehead == face_landmarks[FOREHEAD].y
                     chin == face_landmarks[CHIN].y
                     face_height == Abs(chin - forehead)
                     mouth_opening == Abs(lower_lip - upper_lip)
                     mouth_ratio == mouth_ratio_of(mouth_opening, face_height)
                 IN Rule(FracGreater(mouth_ratio, mouth_open_threshold), FALSE,
                         [dbg EXCEPT !.mouth_ratio = mouth_ratio])

\* ------------------------------------------------------------------------
\* _is_thinking.
\* Mutant of close_to: a finger tip exactly at the threshold counts.
close_to_le(finger_tip, mouth_point) ==
    LET dx == finger_tip.x - mouth_point.x
        dy == finger_tip.y - mouth_point.y
    IN dx * dx + dy * dy <= hand_to_face_threshold * hand_to_face_threshold

\* distance < hand_to_face_threshold, with distance = sqrt(dx^2 + dy^2).
close_to(finger_tip, mouth_point) ==
    LET dx == finger_tip.x - mouth_point.x
        dy == finger_tip.y - mouth_point.y
    IN dx * dx + dy * dy < hand_to_face_threshold * hand_to_face_threshold

\* The loop over the hands from hand i on: "fired", "no" or "error"
\* (an IndexError while the finger tips of a hand are collected).
RECURSIVE thinking_loop(_, _, _)
thinking_loop(mouth_points, hands, i) ==
    IF i > Len(hands) THEN "no"
    ELSE IF \E k \in {THUMB_TIP, INDEX_FINGER_TIP, MIDDLE_FINGER_TIP} :
                ~HasIndex(hands[i].landmark, k)
    THEN "error"
    ELSE LET finger_tips == {hands[i].landmark[THUMB_TIP],
                             hands[i].landmark[INDEX_FINGER_TIP],
                             hands[i].landmark[MIDDLE_FINGER_TIP]}
         IN IF \E finger_tip \in finger_tips : \E mouth_point \in mouth_points :
                   close_to(finger_tip, mouth_point)
            THEN "fired"
            ELSE thinking_loop(mouth_points, hands, i + 1)

is_thinking(dbg, pose_results, hand_results, face_results) ==
    IF Falsy(face_results) \/ Falsy(hand_results)
    THEN Rule(FALSE, FALSE, dbg)
    ELSE IF Falsy(face_results.multi_face_landmarks)
            \/ Falsy(hand_results.multi_hand_landmarks)
    THEN Rule(FALSE, FALSE, dbg)
    ELSE LET face_landmarks == face_results.multi_face_landmarks.items[1].landmark
         IN IF \E i \in {UPPER_LIP, LOWER_LIP, CHIN, MOUTH_CENTER} :
                   ~HasIndex(face_landmarks, i)
            THEN \* IndexError, caught
                 Rule(FALSE, FALSE, dbg)
            ELSE LET mouth_points == {face_landmarks[UPPER_LIP],
                                      face_landmarks[LOWER_LIP],
                                      face_landmarks[CHIN],
                                      face_landmarks[MOUTH_CENTER]}
                 IN Rule(thinking_loop(mouth_points,
                                       hand_results.multi_hand_landmarks.items,
                                       1) = "fired",
                         FALSE, dbg)

\* ------------------------------------------------------------------------
\* _determine_pose: the label, or an exception that leaves the call, and
\* self.debug_info afterwards.
Outcome(l, r, d) == [pose_name |-> l, raised |-> r, dbg |-> d]

\* Mutant of determine_pose: Thinking is tried before RaisingHand.
determine_pose_thinking_first(dbg, pose_results, hand_results, face_results) ==
    LET r2 == is_thinking(dbg, pose_results, hand_results, face_results)
    IN IF r2.fired THEN Outcome("thinking", FALSE, r2.dbg)
       ELSE LET r1 == is_raising_hand(r2.dbg, pose_results, hand_results)
            IN IF r1.raised THEN Outcome("none", TRUE, r1.dbg)
               ELSE IF r1.fired THEN Outcome("raising_hand", FALSE, r1.dbg)
               ELSE LET r3 == is_shocking(r1.dbg, face_results)
                    IN IF r3.fired THEN Outcome("shocking", FALSE, r3.dbg)
                       ELSE Outcome("default", FALSE, r3.dbg)

\* Mutant of determine_pose: Shocking is tried before Thinking.
determine_pose_shocking_first(dbg, pose_results, hand_results, face_results) ==
    LET r1 == is_raising_hand(dbg, pose_results, hand_results)
    IN IF r1.raised THEN Outcome("none", TRUE, r1.dbg)
       ELSE IF r1.fired THEN Outcome("raising_hand", FALSE, r1.dbg)
       ELSE LET r3 == is_shocking(r1.dbg, face_results)
            IN IF r3.fired THEN Outcome("shocking", FALSE, r3.dbg)
               ELSE LET r2 == is_thinking(r3.dbg, pose_results, hand_results,
                                          face_results)
                    IN IF r2.fired THEN Outcome("thinking", FALSE, r2.dbg)
                       ELSE Outcome("default", FALSE, r2.dbg)

\* Mutant of determine_pose: the three rules are all evaluated before the
\* first that fired is picked.
determine_pose_eager(dbg, pose_results, hand_results, face_results) ==
    LET r1 == is_raising_hand(dbg, pose_results, hand_results)
        r2 == is_thinking(r1.dbg, pose_results, hand_results, face_results)
        r3 == is_shocking(r2.dbg, face_results)
    IN IF r1.raised THEN Outcome("none", TRUE, r1.dbg)
       ELSE IF r1.fired THEN Outcome("raising_hand", FALSE, r3.dbg)
       ELSE IF r2.fired THEN Outcome("thinking", FALSE, r3.dbg)
       ELSE IF r3.fired THEN Outcome("shocking", FALSE, r3.dbg)
       ELSE Outcome("default", FALSE, r3.dbg)

determine_pose(dbg, pose_results, hand_results, face_results) ==
    LET r1 == is_raising_hand(dbg, pose_results, hand_results)
    IN IF r1.raised THEN Outcome("none", TRUE, r1.dbg)
       ELSE IF r1.fired THEN Outcome("raising_hand", FALSE, r1.dbg)
       ELSE LET r2 == is_thinking(r1.dbg, pose_results, hand_results, face_results)
            IN IF r2.fired THEN Outcome("thinking", FALSE, r2.dbg)
               ELSE LET r3 == is_shocking(r2.dbg, face_results)
                    IN IF r3.fired THEN Outcome("shocking", FALSE, r3.dbg)
                       ELSE Outcome("default", FALSE, r3.dbg)

\* ------------------------------------------------------------------------
\* detect_pose up to the label: the two early returns of a failed
\* cvtColor or a failed process() call, then the reset of self.debug_info,
\* its update and _determine_pose.  fault is "none", "cvt" or "detect";
\* dbg is self.debug_info when the call starts.  What follows the label in
\* detect_pose (lines 134-173) draws on a copy of the frame and writes no
\* field of the detector; self.current_language (line 100) is read by
\* _draw_debug_info only.
Call(l, s, d) == [pose_name |-> l, status |-> s, dbg |-> d]

\* Mutant of update_debug_info: face_detected is set for any face_results
\* object, also one that holds no face.
update_debug_info_any_results(d0, hand_results, face_results) ==
    LET d1 == IF ~Falsy(face_results)
              THEN [d0 EXCEPT !.face_detected = TRUE] ELSE d0
    IN IF ~Falsy(hand_results) /\ ~Falsy(hand_results.multi_hand_landmarks)
       THEN [d1 EXCEPT !.hands_detected = Len(hand_results.multi_hand_landmarks.items)]
       ELSE d1

\* Mutant of update_debug_info: hands_detected says that hands were seen,
\* not how many.
update_debug_info_one_hand(d0, hand_results, face_results) ==
    LET d1 == IF ~Falsy(face_results) /\ ~Falsy(face_results.multi_face_landmarks)
              THEN [d0 EXCEPT !.face_detected = TRUE] ELSE d0
    IN IF ~Falsy(hand_results) /\ ~Falsy(hand_results.multi_hand_landmarks)
       THEN [d1 EXCEPT !.hands_detected = 1]
       ELSE d1

update_debug_info(d0, hand_results, face_results) ==
    LET d1 == IF ~Falsy(face_results) /\ ~Falsy(face_results.multi_face_landmarks)
              THEN [d0 EXCEPT !.face_detected = TRUE] ELSE d0
    IN IF ~Falsy(hand_results) /\ ~Falsy(hand_results.multi_hand_landmarks)
       THEN [d1 EXCEPT !.hands_detected = Len(hand_results.multi_hand_landmarks.items)]
       ELSE d1

\* Mutant of detect: self.debug_info is not reset before it is updated.
detect_no_reset(dbg, fault, pose_results, hand_results, face_results) ==
    IF fault = "cvt" THEN Call("default", "cvt_error", dbg)
    ELSE IF fault = "detect" THEN Call("default", "detect_error", dbg)
    ELSE LET d1 == update_debug_info(dbg, hand_results, face_results)
             o == determine_pose(d1, pose_results, hand_results, face_results)
         IN Call(o.pose_name, IF o.raised THEN "raised" ELSE "returned", o.dbg)

detect(dbg, fault, pose_results, hand_results, face_results) ==
    IF fault = "cvt" THEN Call("default", "cvt_error", dbg)
    ELSE IF fault = "detect" THEN Call("default", "detect_error", dbg)
    ELSE LET d0 == DebugInfo
             d1 == update_debug_info(d0, hand_results, face_results)
             o == determine_pose(d1, pose_results, hand_results, face_results)
         IN Call(o.pose_name, IF o.raised THEN "raised" ELSE "returned", o.dbg)

\* ------------------------------------------------------------------------
\* What the three MediaPipe solutions can hand to the classifier.

Far == Pt(90, 90, 0)
AtEdge == Pt(58, 40, 0)
NearLips == Pt(50, 46, 20)
NearChin == Pt(50, 72, 0)

Hand(wrist_y, thumb, index, middle) ==
    LandmarkList(WRIST :> Pt(50, wrist_y, 0) @@ THUMB_TIP :> thumb
                 @@ INDEX_FINGER_TIP :> index @@ MIDDLE_FINGER_TIP :> middle)

\* A hand message that holds no landmark at all.
EmptyHand == LandmarkList(<<>>)

Hands ==
    {Hand(25, Far, Far, Far), Hand(30, Far, Far, Far),
     Hand(60, AtEdge, Far, Far), Hand(60, Far, NearLips, Far),
     Hand(60, Far, Far, NearChin), EmptyHand}

\* Hands a detector reports after the first one.
MoreHands == {Hand(25, Far, Far, Far), Hand(60, Far, NearLips, Far), EmptyHand}

Face(forehead_y, chin_y, lower_lip_y) ==
    LandmarkList(MOUTH_CENTER :> Pt(44, 40, 0) @@ FOREHEAD :> Pt(50, forehead_y, 0)
                 @@ UPPER_LIP :> Pt(50, 40, 0) @@ LOWER_LIP :> Pt(50, lower_lip_y, 0)
                 @@ CHIN :> Pt(50, chin_y, 0))

\* A face message cut before the chin.
ShortFace ==
    LandmarkList(MOUTH_CENTER :> Pt(44, 40, 0) @@ FOREHEAD :> Pt(50, 20, 0)
                 @@ UPPER_LIP :> Pt(50, 40, 0) @@ LOWER_LIP :> Pt(50, 50, 0))

OpenFace == Face(20, 70, 50)

Faces == {Face(20, c, l) : c \in {0, 20, 70}, l \in {37, 50}} \cup {ShortFace}

\* Faces a detector reports after the first one.
MoreFaces == {OpenFace, ShortFace}

SeqsUpTo(S, n) == UNION {[1..k -> S] : k \in 0..n}

PoseResults ==
    {None, [kind |-> "results", pose_landmarks |-> None],
     [kind |-> "results", pose_landmarks |-> LandmarkList(<<>>)],
     [kind |-> "results",
      pose_landmarks |-> LandmarkList(NOSE :> Pt(50, 35, 0))]}

HandResultsOf(lists) ==
    {None, [kind |-> "results", multi_hand_landmarks |-> None]}
    \cup {[kind |-> "results", multi_hand_landmarks |-> List(l)] : l \in lists}

FaceResultsOf(lists) ==
    {None, [kind |-> "results", multi_face_landmarks |-> None]}
    \cup {[kind |-> "results", multi_face_landmarks |-> List(l)] : l \in lists}

HandLists ==
    {<<>>} \cup {<<h>> \o r : h \in Hands, r \in SeqsUpTo(MoreHands, max_num_hands - 1)}

FaceLists ==
    {<<>>} \cup {<<f>> \o r : f \in Faces, r \in SeqsUpTo(MoreFaces, MaxFaces - 1)}

Snapshot(p, h, f) == [pose_results |-> p, hand_results |-> h, face_results |-> f]

Snapshots ==
    {Snapshot(p, h, f) : p \in PoseResults, h \in HandResultsOf(HandLists),
                         f \in FaceResultsOf(FaceLists)}

Faults == {"none", "cvt", "detect"}

\* ------------------------------------------------------------------------
\* Languages, names and texts of config.py.  A Python dict is a function
\* of its keys, and d.get(k, default) is DictGet.

DictGet(d, k, default) == IF k \in DOMAIN d THEN d[k] ELSE default

default_language == "id"

LANGUAGES == {"id", "en", "tr"}

POSE_NAMES_ID ==
    [raising_hand |-> "Mengangkat Tangan", shocking |-> "Terkejut (Mulut Terbuka)",
     thinking |-> "Berpikir (Tangan di Wajah)", default |-> "Posisi Normal"]

POSE_NAMES_EN ==
    [raising_hand |-> "Raising Hand", shocking |-> "Shocking (Open Mouth)",
     thinking |-> "Thinking (Hand on Face)", default |-> "Default Pose"]

POSE_NAMES_TR ==
    [raising_hand |-> "Isaret Parmagi Yukarida", shocking |-> "Agiz Acik (Saskinlik)",
     thinking |-> "El Yuzde (Dusunme)", default |-> "Normal Durus"]

UI_TEXT ==
    [id |-> [hands |-> "Tangan", face |-> "Wajah", pose |-> "Pose"],
     en |-> [hands |-> "Hands", face |-> "Face", pose |-> "Pose"],
     tr |-> [hands |-> "Eller", face |-> "Yuz", pose |-> "Poz"]]

\* ------------------------------------------------------------------------
\* Frames.  The content of a frame is the sequence of drawings made on the
\* camera image, RawFrame being the image as the caller passes it.  A frame
\* that detect_pose returns is the caller's array itself (is_input) or
\* another array, and has a content.

RawFrame == <<>>

Returned(is_input, content) ==
    [kind |-> "frame", is_input |-> is_input, content |-> content]

\* _draw_debug_info: the texts of the detector's language, the metrics and
\* the label, drawn on the array it is given.
draw_debug_info(content, current_language, dbg, pose_name) ==
    LET ui_text == DictGet(UI_TEXT, current_language, UI_TEXT["id"])
    IN Append(content, [op |-> "debug", ui_text |-> ui_text, metrics |-> dbg,
                        pose_name |-> pose_name])

\* The try block of detect_pose that draws the lips of every face and then
\* every hand; an exception of draw_landmarks ends it.
draw_landmarks(content, hand_results, face_results, fault) ==
    IF fault = "draw" THEN content
    ELSE LET c1 == IF ~Falsy(face_results) /\ ~Falsy(face_results.multi_face_landmarks)
                   THEN Append(content,
                               [op |-> "lips",
                                n |-> Len(face_results.multi_face_landmarks.items)])
                   ELSE content
         IN IF ~Falsy(hand_results) /\ ~Falsy(hand_results.multi_hand_landmarks)
            THEN Append(c1, [op |-> "hands",
                             n |-> Len(hand_results.multi_hand_landmarks.items)])
            ELSE c1

\* What one call of detect_pose leaves: the label, how the call ended, the
\* detector's fields, the content of the caller's frame and the frame
\* returned (None when the call raised).
Result(c, language, frame, processed_frame) ==
    [pose_name |-> c.pose_name, status |-> c.status, dbg |-> c.dbg,
     current_language |-> language, frame |-> frame,
     processed_frame |-> processed_frame]

\* Mutant of finish_call: the drawings are made on the caller's frame.
finish_call_in_place(c, frame, show_landmarks, language, fault, hand_results, face_results) ==
    IF c.status = "raised" THEN Result(c, language, frame, None)
    ELSE IF c.status # "returned"
    THEN Result(c, language, frame, Returned(TRUE, frame))
    ELSE IF show_landmarks
    THEN LET drawn == draw_landmarks(frame, hand_results, face_results, fault)
             display_frame == draw_debug_info(drawn, language, c.dbg, c.pose_name)
         IN Result(c, language, display_frame, Returned(TRUE, display_frame))
    ELSE Result(c, language, frame, Returned(TRUE, frame))

\* Mutant of finish_call: with the landmarks hidden the label is default
\* and the metrics are the defaults.
finish_call_hidden(c, frame, show_landmarks, language, fault, hand_results, face_results) ==
    IF ~show_landmarks /\ c.status \in {"returned", "raised"}
    THEN Result(Call("default", "returned", DebugInfo), language, frame,
                Returned(TRUE, frame))
    ELSE IF c.status = "raised" THEN Result(c, language, frame, None)
    ELSE IF c.status # "returned"
    THEN Result(c, language, frame, Returned(TRUE, frame))
    ELSE LET drawn == draw_landmarks(frame, hand_results, face_results, fault)
             display_frame == draw_debug_info(drawn, language, c.dbg, c.pose_name)
         IN Result(c, language, frame, Returned(FALSE, display_frame))

\* detect_pose from line 100 on, c being what lines 102-132 made of the
\* frame: the language is stored, an exception of _determine_pose leaves
\* the call, the two early returns give the input frame back, and the
\* drawings are made on a copy when show_landmarks is set.
finish_call(c, frame, show_landmarks, language, fault, hand_results, face_results) ==
    IF c.status = "raised" THEN Result(c, language, frame, None)
    ELSE IF c.status # "returned"
    THEN Result(c, language, frame, Returned(TRUE, frame))
    ELSE IF show_landmarks
    THEN LET drawn == draw_landmarks(frame, hand_results, face_results, fault)
             display_frame == draw_debug_info(drawn, language, c.dbg, c.pose_name)
         IN Result(c, language, frame, Returned(FALSE, display_frame))
    ELSE Result(c, language, frame, Returned(TRUE, frame))

Only(S) == CHOOSE x \in S : TRUE

\* detect_pose as a function of the detector's metrics, the frame, the two
\* arguments and what cvtColor, process() and draw_landmarks do.
detect_pose_call(dbg, frame, show_landmarks, language, fault, pose_results, hand_results, face_results) ==
    Only({finish_call(c, frame, show_landmarks, language, fault, hand_results,
                      face_results) :
              c \in {detect(dbg, IF fault = "draw" THEN "none" ELSE fault,
                            pose_results, hand_results, face_results)}})

\* ------------------------------------------------------------------------
\* The display layer of main.py.

POSES == {"raising_hand", "shocking", "thinking", "default"}

\* CONFIG.assets: the image file of each pose.
AssetPath(pose) == "assets/" \o pose \o "_pose.jpg"

\* _load_monkey_images, for the set of image files that exist.
load_monkey_images(existing) ==
    [pose \in POSES |-> IF pose \in existing
                        THEN [kind |-> "str", path |-> AssetPath(pose)]
                        ELSE None]

\* What _update_monkey_image puts in monkey_label.
monkey_label_for(monkey_images, pose_name) ==
    LET image_path == DictGet(monkey_images, pose_name, None)
    IN IF ~Falsy(image_path)
       THEN [kind |-> "pixmap", path |-> image_path.path]
       ELSE [kind |-> "text", text |-> pose_name \o "\n\n(Image not found)"]

\* What _update_pose_name_display puts in pose_name_label.
pose_name_text(language, pose) ==
    LET pose_names == [id |-> POSE_NAMES_ID, en |-> POSE_NAMES_EN,
                       tr |-> POSE_NAMES_TR]
        current_names == DictGet(pose_names, language, POSE_NAMES_ID)
    IN DictGet(current_names, pose, pose)

\* ------------------------------------------------------------------------
\* State.
\*
\* The detector: debug_info is self.debug_info, detector_language is
\* self.current_language of PoseDetector, released says that release()
\* closed the three models.
\*
\* The call of detect_pose made by the frame handler: pose_results,
\* hand_results and face_results are the results of its process() calls,
\* status and pose_name say how it ended and what it returned, frame is the
\* content of the caller's frame after the call and processed_frame the
\* frame returned.  dirty records that self.debug_info held values other
\* than the defaults when the call started, fresh is what a newly
\* constructed PoseDetector makes of the same frame, and plain is what the
\* same detector makes of it when called with the default arguments
\* (show_landmarks = True, language = "id").
\*
\* The window of main.py: current_language, show_landmarks, current_pose
\* and monkey_images are the fields of MonkeyPoseApp, camera and timer are
\* the states of self.camera and self.timer, monkey_label and
\* pose_name_label are what the two labels show, app says whether the
\* window runs, was closed, or was ended by an exception that left a slot.
\* event is the slot that runs, with the inputs it drew ("none" between
\* two slots), image_loaded says that it called _update_monkey_image, and
\* close_log lists the calls closeEvent made, in order.
VARIABLES debug_info, pose_results, hand_results, face_results,
          status, pose_name, dirty, fresh,
          detector_language, released, frame, processed_frame, plain,
          current_language, show_landmarks, current_pose, monkey_images,
          camera, timer, monkey_label, pose_name_label, app,
          event, image_loaded, close_log

call_vars == <<pose_results, hand_results, face_results, status, pose_name,
               dirty, fresh, frame, processed_frame, plain>>

detector_vars == <<debug_info, detector_language, released>>

display_vars == <<current_pose, monkey_label, pose_name_label>>

app_vars == <<current_language, show_landmarks, current_pose, monkey_images,
              camera, timer, monkey_label, pose_name_label, app,
              event, image_loaded, close_log>>

vars == <<debug_info, pose_results, hand_results, face_results,
          status, pose_name, dirty, fresh,
          detector_language, released, frame, processed_frame, plain,
          current_language, show_landmarks, current_pose, monkey_images,
          camera, timer, monkey_label, pose_name_label, app,
          event, image_loaded, close_log>>

NoCall == Call("none", "idle", DebugInfo)

Event(handler, opened, ret, display_ok) ==
    [handler |-> handler, opened |-> opened, ret |-> ret,
     display_ok |-> display_ok]

NoEvent == Event("none", FALSE, FALSE, FALSE)

\* The state after PoseDetector() and MonkeyPoseApp() returned, for the set
\* of image files found in the assets folder.  _init_camera raises unless
\* the camera is opened, and _setup_ui ends with
\* _update_monkey_image("default").
Constructed(existing) ==
    /\ debug_info = DebugInfo
    /\ pose_results = None
    /\ hand_results = None
    /\ face_results = None
    /\ status = "idle"
    /\ pose_name = "none"
    /\ dirty = FALSE
    /\ fresh = NoCall
    /\ detector_language = default_language
    /\ released = FALSE
    /\ frame = RawFrame
    /\ processed_frame = None
    /\ plain = NoCall
    /\ current_language = default_language
    /\ show_landmarks = TRUE
    /\ current_pose = "default"
    /\ monkey_images = load_monkey_images(existing)
    /\ camera = "open"
    /\ timer = "active"
    /\ monkey_label = monkey_label_for(load_monkey_images(existing), "default")
    /\ pose_name_label = pose_name_text(default_language, "default")
    /\ app = "running"
    /\ event = NoEvent
    /\ image_loaded = FALSE
    /\ close_log = <<>>

\* The repository's assets folder holds the four images.
Init == Constructed(POSES)

detect_pose(fault, s) ==
    \E r \in {detect_pose_call(debug_info, RawFrame, show_landmarks,
                               current_language, fault, s.pose_results,
                               s.hand_results, s.face_results)},
       q \in {detect_pose_call(debug_info, RawFrame, TRUE, default_language,
                               fault, s.pose_results, s.hand_results,
                               s.face_results)} :
        /\ debug_info' = r.dbg
        /\ status' = r.status
        /\ pose_name' = r.pose_name
        /\ detector_language' = r.current_language
        /\ frame' = r.frame
        /\ processed_frame' = r.processed_frame
        /\ pose_results' = s.pose_results
        /\ hand_results' = s.hand_results
        /\ face_results' = s.face_results
        /\ dirty' = (debug_info # DebugInfo)
        /\ fresh' = detect(DebugInfo, IF fault = "draw" THEN "none" ELSE fault,
                           s.pose_results, s.hand_results, s.face_results)
        /\ plain' = Call(q.pose_name, q.status, q.dbg)
        /\ UNCHANGED released

\* The frame handler that called detect_pose is left (by its return or by
\* the exception): the results and the label go with it.
frame_done ==
    /\ status # "idle"
    /\ status' = "idle"
    /\ pose_name' = "none"
    /\ pose_results' = None
    /\ hand_results' = None
    /\ face_results' = None
    /\ dirty' = FALSE
    /\ fresh' = NoCall
    /\ frame' = RawFrame
    /\ processed_frame' = None
    /\ plain' = NoCall
    /\ UNCHANGED detector_vars
    /\ UNCHANGED app_vars

\* The frame handler calls detect_pose once per frame.
next_frame ==
    /\ status = "idle"
    /\ \E fault \in Faults :
           IF fault = "none"
           THEN \E s \in Snapshots : detect_pose(fault, s)
           ELSE detect_pose(fault, Snapshot(None, None, None))
    /\ UNCHANGED app_vars

Next ==
    \/ next_frame
    \/ frame_done

Spec == Init /\ [][Next]_vars

\* ------------------------------------------------------------------------
\* The window: the timer's slot _update_frame, the two settings slots and
\* closeEvent, each run to its end.

AppFaults == Faults \cup {"draw"}

Body == [kind |-> "results",
         pose_landmarks |-> LandmarkList(NOSE :> Pt(50, 35, 0))]

HandsOf(l) == [kind |-> "results", multi_hand_landmarks |-> List(l)]

FacesOf(l) == [kind |-> "results", multi_face_landmarks |-> List(l)]

\* The frames the camera shows to the window: nobody, a raised hand, a
\* hand at the open mouth, an open mouth, a closed mouth behind an open
\* one, and a body message without landmarks next to a hand.
AppSnapshots ==
    {Snapshot(None, None, None),
     Snapshot(Body, HandsOf(<<Hand(25, Far, Far, Far)>>), None),
     Snapshot(Body, HandsOf(<<Hand(60, Far, NearLips, Far)>>),
              FacesOf(<<OpenFace>>)),
     Snapshot(None, None, FacesOf(<<OpenFace>>)),
     Snapshot(Body, HandsOf(<<Hand(30, Far, Far, Far)>>),
              FacesOf(<<Face(20, 70, 37), OpenFace>>)),
     Snapshot([kind |-> "results", pose_landmarks |-> LandmarkList(<<>>)],
              HandsOf(<<Hand(25, Far, Far, Far)>>), None)}

\* The assets folder of an installation: complete, or one image missing.
AssetSets == {POSES, POSES \ {"thinking"}}

InitApp == \E existing \in AssetSets : Constructed(existing)

\* Mutant of should_process: a failed read is not noticed.
should_process_any_read(cam, ret) == cam = "open"

\* The two checks at the head of _update_frame: the camera is there and
\* opened, and read() gave a frame.
should_process(cam, ret) == cam = "open" /\ ret

\* The tail of _update_frame, after detect_pose: an exception that left
\* detect_pose leaves the slot too and ends the program; otherwise the
\* frame is displayed and, when the label changed, current_pose and the
\* monkey image follow it.
show_result(display_ok) ==
    IF status' = "raised"
    THEN /\ app' = "crashed"
         /\ image_loaded' = FALSE
         /\ UNCHANGED display_vars
    ELSE IF ~display_ok
    THEN /\ image_loaded' = FALSE
         /\ UNCHANGED <<app, display_vars>>
    ELSE IF pose_name' # current_pose
    THEN /\ current_pose' = pose_name'
         /\ monkey_label' = monkey_label_for(monkey_images, pose_name')
         /\ pose_name_label' = pose_name_text(current_language, pose_name')
         /\ image_loaded' = TRUE
         /\ UNCHANGED app
    ELSE /\ image_loaded' = FALSE
         /\ UNCHANGED <<app, display_vars>>

update_frame ==
    /\ app # "crashed"
    /\ event = NoEvent
    /\ \E ret \in IF camera = "open" THEN BOOLEAN ELSE {FALSE} :
           IF ~should_process(camera, ret)
           THEN /\ event' = Event("_update_frame", camera = "open", ret, FALSE)
                /\ image_loaded' = FALSE
                /\ UNCHANGED <<app, display_vars, call_vars, detector_vars>>
           ELSE \E display_ok \in BOOLEAN,
                   fault \in IF released THEN {"cvt", "detect"} ELSE AppFaults :
                    \E s \in IF fault \in {"none", "draw"} THEN AppSnapshots
                             ELSE {Snapshot(None, None, None)} :
                        /\ event' = Event("_update_frame", camera = "open",
                                          ret, display_ok)
                        /\ detect_pose(fault, s)
                        /\ show_result(display_ok)
    /\ UNCHANGED <<current_language, show_landmarks, monkey_images, camera,
                   timer, close_log>>

\* Mutant of on_language_changed: the pose name is not refreshed.
on_language_changed_stale_name ==
    /\ app = "running"
    /\ event = NoEvent
    /\ \E lang_code \in LANGUAGES \ {current_language} :
           /\ current_language' = lang_code
           /\ UNCHANGED pose_name_label
    /\ event' = Event("_on_language_changed", FALSE, FALSE, FALSE)
    /\ image_loaded' = FALSE
    /\ UNCHANGED <<show_landmarks, current_pose, monkey_images, camera, timer,
                   monkey_label, app, close_log>>
    /\ UNCHANGED <<call_vars, detector_vars>>

\* _on_language_changed, for the language of the combo box item chosen.
on_language_changed ==
    /\ app = "running"
    /\ event = NoEvent
    /\ \E lang_code \in LANGUAGES \ {current_language} :
           /\ current_language' = lang_code
           /\ pose_name_label' = pose_name_text(lang_code, current_pose)
    /\ event' = Event("_on_language_changed", FALSE, FALSE, FALSE)
    /\ image_loaded' = FALSE
    /\ UNCHANGED <<show_landmarks, current_pose, monkey_images, camera, timer,
                   monkey_label, app, close_log>>
    /\ UNCHANGED <<call_vars, detector_vars>>

\* _on_landmark_toggle, for the new state of the check box.
on_landmark_toggle ==
    /\ app = "running"
    /\ event = NoEvent
    /\ \E checked \in BOOLEAN \ {show_landmarks} :
           show_landmarks' = checked
    /\ event' = Event("_on_landmark_toggle", FALSE, FALSE, FALSE)
    /\ image_loaded' = FALSE
    /\ UNCHANGED <<current_language, current_pose, monkey_images, camera,
                   timer, monkey_label, pose_name_label, app, close_log>>
    /\ UNCHANGED <<call_vars, detector_vars>>

\* Mutant of closeEvent: the camera is not released.
closeEvent_camera_kept ==
    /\ app = "running"
    /\ event = NoEvent
    /\ timer' = "stopped"
    /\ released' = TRUE
    /\ close_log' = <<"timer.stop", "pose_detector.release">>
    /\ app' = "closed"
    /\ event' = Event("closeEvent", FALSE, FALSE, FALSE)
    /\ image_loaded' = FALSE
    /\ UNCHANGED <<current_language, show_landmarks, monkey_images, camera,
                   display_vars>>
    /\ UNCHANGED <<call_vars, debug_info, detector_language>>

\* closeEvent: the timer is stopped, the camera released, the detector's
\* models closed, and the event accepted.
closeEvent ==
    /\ app = "running"
    /\ event = NoEvent
    /\ timer' = "stopped"
    /\ camera' = "released"
    /\ released' = TRUE
    /\ close_log' = <<"timer.stop", "camera.release", "pose_detector.release">>
    /\ app' = "closed"
    /\ event' = Event("closeEvent", FALSE, FALSE, FALSE)
    /\ image_loaded' = FALSE
    /\ UNCHANGED <<current_language, show_landmarks, monkey_images,
                   display_vars>>
    /\ UNCHANGED <<call_vars, debug_info, detector_language>>

\* The slot returns to the event loop: its frame, the results and the
\* label go with it.
slot_done ==
    /\ app # "crashed"
    /\ event # NoEvent
    /\ event' = NoEvent
    /\ image_loaded' = FALSE
    /\ status' = "idle"
    /\ pose_name' = "none"
    /\ pose_results' = None
    /\ hand_results' = None
    /\ face_results' = None
    /\ dirty' = FALSE
    /\ fresh' = NoCall
    /\ frame' = RawFrame
    /\ processed_frame' = None
    /\ plain' = NoCall
    /\ UNCHANGED detector_vars
    /\ UNCHANGED <<current_language, show_landmarks, current_pose,
                   monkey_images, camera, timer, monkey_label,
                   pose_name_label, app, close_log>>

NextApp ==
    \/ update_frame
    \/ on_language_changed
    \/ on_landmark_toggle
    \/ closeEvent
    \/ slot_done

SpecApp == InitApp /\ [][NextApp]_vars

\* ------------------------------------------------------------------------
\* The snapshot of the call, as the claims read it.
Labels == {"raising_hand", "thinking", "shocking", "default"}

\* The call got past landmark extraction.
Extracted == status \in {"returned", "raised"}

BodyPresent == ~Falsy(pose_results) /\ ~Falsy(pose_results.pose_landmarks)

HandsSeen ==
    IF Falsy(hand_results) \/ Falsy(hand_results.multi_hand_landmarks)
    THEN <<>> ELSE hand_results.multi_hand_landmarks.items

FacesSeen ==
    IF Falsy(face_results) \/ Falsy(face_results.multi_face_landmarks)
    THEN <<>> ELSE face_results.multi_face_landmarks.items

FingerTips == {THUMB_TIP, INDEX_FINGER_TIP, MIDDLE_FINGER_TIP}
MouthRegion == {UPPER_LIP, LOWER_LIP, CHIN, MOUTH_CENTER}

\* Every landmark set the rules read has the size the detectors give it:
\* the body holds a nose, every hand a wrist and the three finger tips, the
\* first face the lips, the forehead, the chin and the mouth centre.
WellFormed ==
    /\ BodyPresent => NOSE \in DOMAIN pose_results.pose_landmarks.landmark
    /\ \A i \in DOMAIN HandsSeen :
           ({WRIST} \cup FingerTips) \subseteq DOMAIN HandsSeen[i].landmark
    /\ FacesSeen # <<>> =>
           (MouthRegion \cup {FOREHEAD}) \subseteq DOMAIN FacesSeen[1].landmark

\* d = nose_y - wrist_y of hand i.
HeightDiff(i) ==
    pose_results.pose_landmarks.landmark[NOSE].y - HandsSeen[i].landmark[WRIST].y

RaisingHandCondition ==
    BodyPresent /\ \E i \in DOMAIN HandsSeen : HeightDiff(i) > hand_raise_threshold

\* Squared 2D distance between finger tip k of hand i and point m of the
\* first face.
Dist2(i, k, m) ==
    LET a == HandsSeen[i].landmark[k]
        b == FacesSeen[1].landmark[m]
    IN (a.x - b.x) * (a.x - b.x) + (a.y - b.y) * (a.y - b.y)

Threshold2 == hand_to_face_threshold * hand_to_face_threshold

ThinkingCondition ==
    /\ FacesSeen # <<>>
    /\ \E i \in DOMAIN HandsSeen : \E k \in FingerTips : \E m \in MouthRegion :
           Dist2(i, k, m) < Threshold2

Gap(a, b) == IF a >= b THEN a - b ELSE b - a

FaceHeight ==
    Gap(FacesSeen[1].landmark[CHIN].y, FacesSeen[1].landmark[FOREHEAD].y)

MouthOpening ==
    Gap(FacesSeen[1].landmark[LOWER_LIP].y, FacesSeen[1].landmark[UPPER_LIP].y)

\* mouth_opening / face_height > mouth_open_threshold, for face_height > 0.
ShockingCondition ==
    /\ FacesSeen # <<>>
    /\ FaceHeight > 0
    /\ MouthOpening * Scale > mouth_open_threshold * FaceHeight

\* ------------------------------------------------------------------------
\* C1: a snapshot with the body present and some hand with
\* nose_y - wrist_y > hand_raise_threshold is labelled raising_hand, whatever
\* the face and the finger tips are (also when the Thinking and the Shocking
\* conditions hold).
C1_RaisingHandFirst ==
    (Extracted /\ WellFormed /\ RaisingHandCondition)
        => (status = "returned" /\ pose_name = "raising_hand")

C1_Witness ==
    /\ status = "returned" /\ WellFormed
    /\ RaisingHandCondition /\ ThinkingCondition /\ ShockingCondition
    /\ pose_name = "raising_hand"

\* C2: a snapshot where the RaisingHand condition does not hold and both the
\* Thinking and the Shocking conditions hold is labelled thinking.
C2_ThinkingBeforeShocking ==
    (Extracted /\ WellFormed /\ ~RaisingHandCondition
     /\ ThinkingCondition /\ ShockingCondition)
        => (status = "returned" /\ pose_name = "thinking")

C2_Witness ==
    /\ status = "returned" /\ WellFormed
    /\ ~RaisingHandCondition /\ ThinkingCondition /\ ShockingCondition
    /\ pose_name = "thinking"

\* C3: the label is raising_hand if and only if the body is present, a hand
\* is present and some hand has d = nose_y - wrist_y strictly above
\* hand_raise_threshold; d = t does not count, and hands without a body never
\* give raising_hand.
C3_RaisingHandIff ==
    (Extracted /\ WellFormed)
        => /\ status = "returned"
           /\ pose_name = "raising_hand" <=> RaisingHandCondition
           /\ (~BodyPresent /\ HandsSeen # <<>>) => pose_name # "raising_hand"

\* Some hand is exactly at the threshold, none above it.
C3_Witness ==
    /\ status = "returned" /\ WellFormed /\ BodyPresent
    /\ \E i \in DOMAIN HandsSeen : HeightDiff(i) = hand_raise_threshold
    /\ ~RaisingHandCondition
    /\ pose_name # "raising_hand"

\* C4: when RaisingHand does not fire, the label is thinking if and only if
\* a face and a hand are present and some finger tip (thumb, index, middle)
\* of some hand is at a 2D distance strictly below hand_to_face_threshold
\* from one of the four mouth-region points of the first face; z and the
\* body play no part.
C4_ThinkingIff ==
    (Extracted /\ WellFormed /\ ~RaisingHandCondition)
        => /\ status = "returned"
           /\ pose_name = "thinking" <=> ThinkingCondition

\* A finger tip exactly at the threshold from a mouth-region point, none
\* closer.
C4_Witness ==
    /\ status = "returned" /\ WellFormed /\ ~RaisingHandCondition
    /\ FacesSeen # <<>>
    /\ \E i \in DOMAIN HandsSeen : \E k \in FingerTips : \E m \in MouthRegion :
           Dist2(i, k, m) = Threshold2
    /\ ~ThinkingCondition
    /\ pose_name # "thinking"

\* C5: when neither RaisingHand nor Thinking fires and the first face has
\* face_height > 0, the label is shocking if and only if
\* mouth_opening / face_height > mouth_open_threshold, strictly, and
\* debug_info.mouth_ratio is that ratio.
C5_ShockingIff ==
    (Extracted /\ WellFormed /\ ~RaisingHandCondition /\ ~ThinkingCondition
     /\ FacesSeen # <<>> /\ FaceHeight > 0)
        => /\ status = "returned"
           /\ pose_name = "shocking" <=> ShockingCondition
           /\ debug_info.mouth_ratio.den > 0
           /\ debug_info.mouth_ratio.num * FaceHeight
                  = MouthOpening * debug_info.mouth_ratio.den

\* The ratio is exactly the threshold.
C5_Witness ==
    /\ status = "returned" /\ WellFormed
    /\ ~RaisingHandCondition /\ ~ThinkingCondition
    /\ FacesSeen # <<>> /\ FaceHeight > 0
    /\ MouthOpening * Scale = mouth_open_threshold * FaceHeight
    /\ pose_name = "default"
    /\ debug_info.mouth_ratio # Zero

\* C6: when the first face has forehead_y = chin_y, debug_info.mouth_ratio
\* is exactly 0.0 after the classification and the label is not shocking,
\* whatever the lips are.
C6_ZeroFaceHeight ==
    (Extracted /\ FacesSeen # <<>>
     /\ {FOREHEAD, CHIN} \subseteq DOMAIN FacesSeen[1].landmark
     /\ FaceHeight = 0)
        => (debug_info.mouth_ratio = Zero /\ pose_name # "shocking")

C6_Witness ==
    /\ status = "returned" /\ WellFormed
    /\ ~RaisingHandCondition /\ ~ThinkingCondition
    /\ FacesSeen # <<>> /\ FaceHeight = 0 /\ MouthOpening > 0
    /\ pose_name = "default"
    /\ debug_info.mouth_ratio = Zero

\* C7: classification never raises: for every combination of present,
\* absent, empty or cut-short inputs _determine_pose returns one of the four
\* labels.
C7_NeverRaises ==
    Extracted => (status = "returned" /\ pose_name \in Labels)

\* C8: when the image conversion or the landmark extraction fails inside
\* detect_pose, the call returns default and debug_info is zeroed.
C8_FailureZeroesMetrics ==
    status \in {"cvt_error", "detect_error"}
        => (pose_name = "default" /\ debug_info = DebugInfo)

\* C9: after a call whose extraction succeeds, the label and the four
\* metrics depend on that call's snapshot only: they are what a newly
\* constructed detector gives for the same snapshot, whatever the earlier
\* frames were.
C9_NoHistory ==
    Extracted => Call(pose_name, status, debug_info) = fresh

\* An earlier frame left metrics behind, and this frame, which has an open
\* mouth and a raised hand, shows none of its mouth ratio.
C9_Witness ==
    /\ status = "returned" /\ dirty /\ WellFormed
    /\ RaisingHandCondition /\ ShockingCondition
    /\ pose_name = "raising_hand"
    /\ debug_info.mouth_ratio = Zero
    /\ fresh.dbg = debug_info

EmptySnapshot == ~BodyPresent /\ HandsSeen = <<>> /\ FacesSeen = <<>>

\* C10: an empty snapshot (no body, no hands, no faces) is labelled default
\* and leaves face_detected = false, hands_detected = 0, mouth_ratio = 0.0
\* and hand_height = 0.0.
C10_EmptySnapshot ==
    (Extracted /\ EmptySnapshot)
        => (status = "returned" /\ pose_name = "default"
            /\ debug_info = DebugInfo)

C10_Witness ==
    /\ status = "returned" /\ dirty /\ EmptySnapshot
    /\ pose_name = "default" /\ debug_info = DebugInfo

\* C11: the label is default if and only if none of the RaisingHand,
\* Thinking and Shocking rules fires for the snapshot, and in every case the
\* label is one of raising_hand, thinking, shocking, default.  The second
\* half fails for a snapshot whose body or hand lacks the landmark that
\* _is_raising_hand reads: the call ends in an IndexError and gives no label.
C11_DefaultIff ==
    Extracted
        => /\ pose_name \in Labels
           /\ WellFormed
                  => (pose_name = "default"
                          <=> (~RaisingHandCondition /\ ~ThinkingCondition
                               /\ ~ShockingCondition))

\* The hand whose difference hand_height holds after _is_raising_hand: the
\* first above the threshold, or the last of the list when none is.
HandsAbove == {i \in DOMAIN HandsSeen : HeightDiff(i) > hand_raise_threshold}

RecordedHand ==
    IF HandsAbove = {} THEN Len(HandsSeen)
    ELSE CHOOSE i \in HandsAbove : \A j \in HandsAbove : i <= j

\* C12: hand_height is 0.0 when the body or all hands are absent; otherwise
\* it is nose_y - wrist_y of the first hand in detection order above
\* hand_raise_threshold, or of the last hand when none is above it; it is
\* not the maximum over the hands.
C12_HandHeight ==
    (Extracted /\ WellFormed)
        => debug_info.hand_height =
               IF ~BodyPresent \/ HandsSeen = <<>> THEN 0
               ELSE HeightDiff(RecordedHand)

\* Two hands, none above the threshold, and the first is the higher one.
C12_Witness ==
    /\ status = "returned" /\ WellFormed /\ BodyPresent
    /\ Len(HandsSeen) = 2 /\ HandsAbove = {}
    /\ HeightDiff(1) > HeightDiff(2)
    /\ debug_info.hand_height = HeightDiff(2)

\* C13: after a classification whose extraction succeeded, face_detected
\* is true if and only if the snapshot holds a face, and hands_detected is
\* the number of hands of the snapshot, whatever the label.
C13_Presence ==
    Extracted
        => /\ debug_info.face_detected <=> FacesSeen # <<>>
           /\ debug_info.hands_detected = Len(HandsSeen)

C13_Witness ==
    /\ status = "returned" /\ pose_name = "raising_hand"
    /\ Len(HandsSeen) = 2 /\ FacesSeen # <<>>
    /\ debug_info.hands_detected = 2 /\ debug_info.face_detected

\* C14: when the label is raising_hand or thinking, mouth_ratio is 0.0,
\* also with an open mouth in the frame.
C14_MouthRatioSkipped ==
    (status = "returned" /\ pose_name \in {"raising_hand", "thinking"})
        => debug_info.mouth_ratio = Zero

C14_Witness ==
    /\ status = "returned" /\ dirty /\ WellFormed
    /\ pose_name = "thinking" /\ ShockingCondition
    /\ debug_info.mouth_ratio = Zero

\* face_results with the faces after the first one removed.
FirstFaceOnly ==
    IF FacesSeen = <<>> THEN face_results
    ELSE [kind |-> "results",
          multi_face_landmarks |-> List(<<FacesSeen[1]>>)]

\* C15: of several faces only the first is used: the label and mouth_ratio
\* of a snapshot are those of the snapshot without its faces after the
\* first, so that two snapshots that differ in those faces only agree.
C15_FirstFaceOnly ==
    Extracted
        => LET c == detect(DebugInfo, "none", pose_results, hand_results,
                           FirstFaceOnly)
           IN /\ pose_name = c.pose_name
              /\ debug_info.mouth_ratio = c.dbg.mouth_ratio

\* The first face has a closed mouth, a later one an open mouth.
C15_Witness ==
    /\ status = "returned" /\ WellFormed
    /\ Len(FacesSeen) >= 2 /\ FacesSeen[2] = OpenFace
    /\ FaceHeight > 0 /\ ~ShockingCondition
    /\ pose_name = "default"

\* ------------------------------------------------------------------------
\* The window's slots, as the claims read them.

\* detect_pose was called in the slot that runs.
Called == status # "idle"

\* C16: detect_pose does not modify the input frame: on every path the
\* caller's frame holds after the call what it held before, every drawing
\* is on another array, and with show_landmarks = false the frame returned
\* is the input frame, unmodified.
C16_InputFrameUntouched ==
    Called
        => /\ frame = RawFrame
           /\ processed_frame.kind = "frame"
                  => (processed_frame.content # RawFrame
                          => ~processed_frame.is_input)
           /\ (~show_landmarks /\ status # "raised")
                  => processed_frame = Returned(TRUE, RawFrame)

\* Lips, hands and the debug text were drawn, and the caller's frame is as
\* it was.
C16_Witness ==
    /\ status = "returned" /\ show_landmarks
    /\ processed_frame.kind = "frame" /\ ~processed_frame.is_input
    /\ Len(processed_frame.content) = 3
    /\ frame = RawFrame

\* C17: the label and the metrics that detect_pose produces for a frame do
\* not depend on show_landmarks or on language: the call made with the
\* window's settings and the call made with the default arguments on the
\* same snapshot return the same label and leave the same metrics.
C17_ArgumentsIgnored ==
    Called => Call(pose_name, status, debug_info) = plain

C17_Witness ==
    /\ status = "returned" /\ dirty
    /\ ~show_landmarks /\ current_language = "tr"
    /\ pose_name = "thinking" /\ debug_info.hands_detected = 1
    /\ plain.pose_name = "thinking"

\* The pose names of a language, as config.py lists them.
NamesOf(language) ==
    CASE language = "id" -> POSE_NAMES_ID
      [] language = "en" -> POSE_NAMES_EN
      [] language = "tr" -> POSE_NAMES_TR

\* The monkey image and the pose name on the screen are those of
\* current_pose in the current language.
DisplayMatches ==
    /\ pose_name_label = NamesOf(current_language)[current_pose]
    /\ IF monkey_images[current_pose] = None
       THEN monkey_label.kind = "text"
       ELSE monkey_label = [kind |-> "pixmap",
                            path |-> monkey_images[current_pose].path]

\* _update_frame ran, read a frame and displayed it without error.
Rendered ==
    /\ event.handler = "_update_frame"
    /\ event.opened /\ event.ret /\ event.display_ok
    /\ app # "crashed"

\* C18: after any sequence of frame updates and language changes the
\* monkey image and the pose name shown are those of current_pose in the
\* current language; after an _update_frame that read a frame and rendered
\* it without error current_pose is the label detect_pose returned; and the
\* monkey image is loaded again only when that label differs from the
\* current_pose before.
C18_DisplayFollowsPose ==
    /\ [](DisplayMatches /\ (Rendered => current_pose = pose_name))
    /\ [][image_loaded' => (current_pose' # current_pose
                            /\ current_pose' = pose_name')]_vars

\* The label changed to a pose without image, in another language.
C18_Witness ==
    /\ Rendered /\ image_loaded
    /\ current_language = "en" /\ current_pose = "thinking"
    /\ monkey_label.kind = "text"
    /\ pose_name_label = "Thinking (Hand on Face)"

\* C19: when the camera is not opened or reading a frame fails,
\* _update_frame returns without calling detect_pose and leaves
\* current_pose, the monkey image, the pose name and the detector's
\* metrics as they were.
C19_NoFrameNoChange ==
    [][(event'.handler = "_update_frame" /\ event.handler = "none"
        /\ (~event'.opened \/ ~event'.ret))
           => /\ ~Called'
              /\ UNCHANGED <<current_pose, monkey_label, pose_name_label,
                             debug_info, detector_language>>]_vars

\* A read failed while metrics and a pose of an earlier frame are there.
C19_Witness ==
    /\ event.handler = "_update_frame" /\ event.opened /\ ~event.ret
    /\ ~Called
    /\ debug_info.hands_detected = 1 /\ current_pose = "raising_hand"

\* C20: closeEvent stops the timer, then releases the camera, then the
\* detector's models; after it no frame is classified: a later
\* _update_frame returns at the camera check.
C20_CloseOrder ==
    /\ [](app = "closed"
              => /\ close_log = <<"timer.stop", "camera.release",
                                  "pose_detector.release">>
                 /\ timer = "stopped" /\ camera = "released" /\ released)
    /\ [][app = "closed"
              => (~Called' /\ UNCHANGED <<debug_info, detector_language>>)]_vars

\* _update_frame ran after closeEvent.
C20_Witness ==
    /\ app = "closed"
    /\ event.handler = "_update_frame" /\ ~event.opened
    /\ ~Called /\ debug_info.hands_detected = 1

\* mouth_ratio > mouth_open_threshold, as the metrics hold it.
RatioAbove ==
    debug_info.mouth_ratio.num * Scale
        > mouth_open_threshold * debug_info.mouth_ratio.den

HeightAbove == debug_info.hand_height > hand_raise_threshold

\* C21: after every classification the label and the metrics agree:
\* shocking implies face_detected and mouth_ratio > mouth_open_threshold;
\* raising_hand implies hands_detected >= 1 and hand_height >
\* hand_raise_threshold; thinking implies face_detected, hands_detected >= 1
\* and hand_height <= hand_raise_threshold; default implies mouth_ratio <=
\* mouth_open_threshold and hand_height <= hand_raise_threshold.  The last
\* part fails for a call that returns default at a failed conversion or
\* extraction: the metrics are then those of the frame before.
C21_LabelMatchesMetrics ==
    (Called /\ pose_name \in Labels)
        => /\ pose_name = "shocking"
                  => (debug_info.face_detected /\ RatioAbove)
           /\ pose_name = "raising_hand"
                  => (debug_info.hands_detected >= 1 /\ HeightAbove)
           /\ pose_name = "thinking"
                  => (debug_info.face_detected
                      /\ debug_info.hands_detected >= 1 /\ ~HeightAbove)
           /\ pose_name = "default" => (~RatioAbove /\ ~HeightAbove)

====
